---- MODULE Spec2Model ----
(***************************************************************************)
(* Model of implementors/core/ops/bit/trait.Not.js, a rustdoc implementors *)
(* script: an immediately-invoked function that builds a table of the      *)
(* implementors of core::ops::bit::Not, one crate key per statement, and   *)
(* hands it to the host page, either by calling                            *)
(* window.register_implementors or by storing it in                        *)
(* window.pending_implementors.                                            *)
(***************************************************************************)
EXTENDS FiniteSets, Integers, Sequences, TLC

VARIABLES
  window,        \* the global object: property name -> JavaScript value
  implementors,  \* the local variable of the enclosing function
  pc,            \* position of the script
  runs,          \* number of times the script has been started
  calls,         \* argument lists the host function has received, in order
  stored,        \* values the script has assigned to pending_implementors
  written,       \* globals the current run has assigned
  invoked,       \* host-function invocations of the current run
  error,         \* error raised by the current run
  replaced       \* what pending_implementors held before the current run's store

vars == << window, implementors, pc, runs, calls, stored, written, invoked, error, replaced >>

(* Number of times the page loads the script. *)
MaxRuns == 2

(* line 2: implementors["hacspec_chacha20"] = [...]; the array literal, 4 records *)
hacspec_chacha20 ==
  <<
     [text |-> "impl <a class=\"trait\" href=\"https://doc.rust-lang.org/nightly/core/ops/bit/trait.Not.html\" title=\"trait core::ops::bit::Not\">Not</a> for <a class=\"struct\" href=\"hacspec_chacha20/struct.State.html\" title=\"struct hacspec_chacha20::State\">State</a>",
      synthetic |-> FALSE,
      types |-> << "hacspec_chacha20::State" >>],
     [text |-> "impl <a class=\"trait\" href=\"https://doc.rust-lang.org/nightly/core/ops/bit/trait.Not.html\" title=\"trait core::ops::bit::Not\">Not</a> for <a class=\"struct\" href=\"hacspec_chacha20/struct.StateBytes.html\" title=\"struct hacspec_chacha20::StateBytes\">StateBytes</a>",
      synthetic |-> FALSE,
      types |-> << "hacspec_chacha20::StateBytes" >>],
     [text |-> "impl <a class=\"trait\" href=\"https://doc.rust-lang.org/nightly/core/ops/bit/trait.Not.html\" title=\"trait core::ops::bit::Not\">Not</a> for <a class=\"struct\" href=\"hacspec_chacha20/struct.IV.html\" title=\"struct hacspec_chacha20::IV\">IV</a>",
      synthetic |-> FALSE,
      types |-> << "hacspec_chacha20::IV" >>],
     [text |-> "impl <a class=\"trait\" href=\"https://doc.rust-lang.org/nightly/core/ops/bit/trait.Not.html\" title=\"trait core::ops::bit::Not\">Not</a> for <a class=\"struct\" href=\"hacspec_chacha20/struct.Key.html\" title=\"struct hacspec_chacha20::Key\">Key</a>",
      synthetic |-> FALSE,
      types |-> << "hacspec_chacha20::Key" >>]
  >>

(* line 3: implementors["hacspec_curve25519"] = [...]; the array literal, 6 records *)
hacspec_curve25519 ==
  <<
     [text |-> "impl <a class=\"trait\" href=\"https://doc.rust-lang.org/nightly/core/ops/bit/trait.Not.html\" title=\"trait core::ops::bit::Not\">Not</a> for <a class=\"struct\" href=\"hacspec_curve25519/struct.FieldCanvas.html\" title=\"struct hacspec_curve25519::FieldCanvas\">FieldCanvas</a>",
      synthetic |-> FALSE,
      types |-> << "hacspec_curve25519::FieldCanvas" >>],
     [text |-> "impl <a class=\"trait\" href=\"https://doc.rust-lang.org/nightly/core/ops/bit/trait.Not.html\" title=\"trait core::ops::bit::Not\">Not</a> for <a class=\"struct\" href=\"hacspec_curve25519/struct.FieldElement.html\" title=\"struct hacspec_curve25519::FieldElement\">FieldElement</a>",
      synthetic |-> FALSE,
      types |-> << "hacspec_curve25519::FieldElement" >>],
     [text |-> "impl <a class=\"trait\" href=\"https://doc.rust-lang.org/nightly/core/ops/bit/trait.Not.html\" title=\"trait core::ops::bit::Not\">Not</a> for <a class=\"struct\" href=\"hacspec_curve25519/struct.ScalarCanvas.html\" title=\"struct hacspec_curve25519::ScalarCanvas\">ScalarCanvas</a>",
      synthetic |-> FALSE,
      types |-> << "hacspec_curve25519::ScalarCanvas" >>],
     [text |-> "impl <a class=\"trait\" href=\"https://doc.rust-lang.org/nightly/core/ops/bit/trait.Not.html\" title=\"trait core::ops::bit::Not\">Not</a> for <a class=\"struct\" href=\"hacspec_curve25519/struct.Scalar.html\" title=\"struct hacspec_curve25519::Scalar\">Scalar</a>",
      synthetic |-> FALSE,
      types |-> << "hacspec_curve25519::Scalar" >>],
     [text |-> "impl <a class=\"trait\" href=\"https://doc.rust-lang.org/nightly/core/ops/bit/trait.Not.html\" title=\"trait core::ops::bit::Not\">Not</a> for <a class=\"struct\" href=\"hacspec_curve25519/struct.SerializedPoint.html\" title=\"struct hacspec_curve25519::SerializedPoint\">SerializedPoint</a>",
      synthetic |-> FALSE,
      types |-> << "hacspec_curve25519::SerializedPoint" >>],
     [text |-> "impl <a class=\"trait\" href=\"https://doc.rust-lang.org/nightly/core/ops/bit/trait.Not.html\" title=\"trait core::ops::bit::Not\">Not</a> for <a class=\"struct\" href=\"hacspec_curve25519/struct.SerializedScalar.html\" title=\"struct hacspec_curve25519::SerializedScalar\">SerializedScalar</a>",
      synthetic |-> FALSE,
      types |-> << "hacspec_curve25519::SerializedScalar" >>]
  >>

(* line 4: implementors["hacspec_poly1305"] = [...]; the array literal, 5 records *)
hacspec_poly1305 ==
  <<
     [text |-> "impl <a class=\"trait\" href=\"https://doc.rust-lang.org/nightly/core/ops/bit/trait.Not.html\" title=\"trait core::ops::bit::Not\">Not</a> for <a class=\"struct\" href=\"hacspec_poly1305/struct.KeyPoly.html\" title=\"struct hacspec_poly1305::KeyPoly\">KeyPoly</a>",
      synthetic |-> FALSE,
      types |-> << "hacspec_poly1305::KeyPoly" >>],
     [text |-> "impl <a class=\"trait\" href=\"https://doc.rust-lang.org/nightly/core/ops/bit/trait.Not.html\" title=\"trait core::ops::bit::Not\">Not</a> for <a class=\"struct\" href=\"hacspec_poly1305/struct.Block.html\" title=\"struct hacspec_poly1305::Block\">Block</a>",
      synthetic |-> FALSE,
      types |-> << "hacspec_poly1305::Block" >>],
     [text |-> "impl <a class=\"trait\" href=\"https://doc.rust-lang.org/nightly/core/ops/bit/trait.Not.html\" title=\"trait core::ops::bit::Not\">Not</a> for <a class=\"struct\" href=\"hacspec_poly1305/struct.Tag.html\" title=\"struct hacspec_poly1305::Tag\">Tag</a>",
      synthetic |-> FALSE,
      types |-> << "hacspec_poly1305::Tag" >>],
     [text |-> "impl <a class=\"trait\" href=\"https://doc.rust-lang.org/nightly/core/ops/bit/trait.Not.html\" title=\"trait core::ops::bit::Not\">Not</a> for <a class=\"struct\" href=\"hacspec_poly1305/struct.FieldCanvas.html\" title=\"struct hacspec_poly1305::FieldCanvas\">FieldCanvas</a>",
      synthetic |-> FALSE,
      types |-> << "hacspec_poly1305::FieldCanvas" >>],
     [text |-> "impl <a class=\"trait\" href=\"https://doc.rust-lang.org/nightly/core/ops/bit/trait.Not.html\" title=\"trait core::ops::bit::Not\">Not</a> for <a class=\"struct\" href=\"hacspec_poly1305/struct.FieldElement.html\" title=\"struct hacspec_poly1305::FieldElement\">FieldElement</a>",
      synthetic |-> FALSE,
      types |-> << "hacspec_poly1305::FieldElement" >>]
  >>

(* line 5: implementors["hacspec_sha256"] = [...]; the array literal, 4 records *)
hacspec_sha256 ==
  <<
     [text |-> "impl <a class=\"trait\" href=\"https://doc.rust-lang.org/nightly/core/ops/bit/trait.Not.html\" title=\"trait core::ops::bit::Not\">Not</a> for <a class=\"struct\" href=\"hacspec_sha256/struct.Block.html\" title=\"struct hacspec_sha256::Block\">Block</a>",
      synthetic |-> FALSE,
      types |-> << "hacspec_sha256::Block" >>],
     [text |-> "impl <a class=\"trait\" href=\"https://doc.rust-lang.org/nightly/core/ops/bit/trait.Not.html\" title=\"trait core::ops::bit::Not\">Not</a> for <a class=\"struct\" href=\"hacspec_sha256/struct.Digest.html\" title=\"struct hacspec_sha256::Digest\">Digest</a>",
      synthetic |-> FALSE,
      types |-> << "hacspec_sha256::Digest" >>],
     [text |-> "impl <a class=\"trait\" href=\"https://doc.rust-lang.org/nightly/core/ops/bit/trait.Not.html\" title=\"trait core::ops::bit::Not\">Not</a> for <a class=\"struct\" href=\"hacspec_sha256/struct.RoundConstantsTable.html\" title=\"struct hacspec_sha256::RoundConstantsTable\">RoundConstantsTable</a>",
      synthetic |-> FALSE,
      types |-> << "hacspec_sha256::RoundConstantsTable" >>],
     [text |-> "impl <a class=\"trait\" href=\"https://doc.rust-lang.org/nightly/core/ops/bit/trait.Not.html\" title=\"trait core::ops::bit::Not\">Not</a> for <a class=\"struct\" href=\"hacspec_sha256/struct.Hash.html\" title=\"struct hacspec_sha256::Hash\">Hash</a>",
      synthetic |-> FALSE,
      types |-> << "hacspec_sha256::Hash" >>]
  >>

(* line 6: implementors["hacspec_sha3"] = [...]; the array literal, 7 records *)
hacspec_sha3 ==
  <<
     [text |-> "impl <a class=\"trait\" href=\"https://doc.rust-lang.org/nightly/core/ops/bit/trait.Not.html\" title=\"trait core::ops::bit::Not\">Not</a> for <a class=\"struct\" href=\"hacspec_sha3/struct.State.html\" title=\"struct hacspec_sha3::State\">State</a>",
      synthetic |-> FALSE,
      types |-> << "hacspec_sha3::State" >>],
     [text |-> "impl <a class=\"trait\" href=\"https://doc.rust-lang.org/nightly/core/ops/bit/trait.Not.html\" title=\"trait core::ops::bit::Not\">Not</a> for <a class=\"struct\" href=\"hacspec_sha3/struct.Row.html\" title=\"struct hacspec_sha3::Row\">Row</a>",
      synthetic |-> FALSE,
      types |-> << "hacspec_sha3::Row" >>],
     [text |-> "impl <a class=\"trait\" href=\"https://doc.rust-lang.org/nightly/core/ops/bit/trait.Not.html\" title=\"trait core::ops::bit::Not\">Not</a> for <a class=\"struct\" href=\"hacspec_sha3/struct.Digest224.html\" title=\"struct hacspec_sha3::Digest224\">Digest224</a>",
      synthetic |-> FALSE,
      types |-> << "hacspec_sha3::Digest224" >>],
     [text |-> "impl <a class=\"trait\" href=\"https://doc.rust-lang.org/nightly/core/ops/bit/trait.Not.html\" title=\"trait core::ops::bit::Not\">Not</a> for <a class=\"struct\" href=\"hacspec_sha3/struct.Digest256.html\" title=\"struct hacspec_sha3::Digest256\">Digest256</a>",
      synthetic |-> FALSE,
      types |-> << "hacspec_sha3::Digest256" >>],
     [text |-> "impl <a class=\"trait\" href=\"https://doc.rust-lang.org/nightly/core/ops/bit/trait.Not.html\" title=\"trait core::ops::bit::Not\">Not</a> for <a class=\"struct\" href=\"hacspec_sha3/struct.Digest384.html\" title=\"struct hacspec_sha3::Digest384\">Digest384</a>",
      synthetic |-> FALSE,
      types |-> << "hacspec_sha3::Digest384" >>],
     [text |-> "impl <a class=\"trait\" href=\"https://doc.rust-lang.org/nightly/core/ops/bit/trait.Not.html\" title=\"trait core::ops::bit::Not\">Not</a> for <a class=\"struct\" href=\"hacspec_sha3/struct.Digest512.html\" title=\"struct hacspec_sha3::Digest512\">Digest512</a>",
      synthetic |-> FALSE,
      types |-> << "hacspec_sha3::Digest512" >>],
     [text |-> "impl <a class=\"trait\" href=\"https://doc.rust-lang.org/nightly/core/ops/bit/trait.Not.html\" title=\"trait core::ops::bit::Not\">Not</a> for <a class=\"struct\" href=\"hacspec_sha3/struct.RoundConstants.html\" title=\"struct hacspec_sha3::RoundConstants\">RoundConstants</a>",
      synthetic |-> FALSE,
      types |-> << "hacspec_sha3::RoundConstants" >>]
  >>

(* line 7 with the record of another trait (Neg) of the same type in place *)
(* of the second record                                                    *)
num_bigint_with_neg ==
  <<
     [text |-> "impl <a class=\"trait\" href=\"https://doc.rust-lang.org/nightly/core/ops/bit/trait.Not.html\" title=\"trait core::ops::bit::Not\">Not</a> for <a class=\"struct\" href=\"num_bigint/struct.BigInt.html\" title=\"struct num_bigint::BigInt\">BigInt</a>",
      synthetic |-> FALSE,
      types |-> << "num_bigint::bigint::BigInt" >>],
     [text |-> "impl <a class=\"trait\" href=\"https://doc.rust-lang.org/nightly/core/ops/arith/trait.Neg.html\" title=\"trait core::ops::arith::Neg\">Neg</a> for <a class=\"struct\" href=\"num_bigint/struct.BigInt.html\" title=\"struct num_bigint::BigInt\">BigInt</a>",
      synthetic |-> FALSE,
      types |-> << "num_bigint::bigint::BigInt" >>]
  >>

(* line 7 with the implementation for BigInt emitted twice and the one for *)
(* &'a BigInt lost                                                        *)
num_bigint_duplicated ==
  <<
     [text |-> "impl <a class=\"trait\" href=\"https://doc.rust-lang.org/nightly/core/ops/bit/trait.Not.html\" title=\"trait core::ops::bit::Not\">Not</a> for <a class=\"struct\" href=\"num_bigint/struct.BigInt.html\" title=\"struct num_bigint::BigInt\">BigInt</a>",
      synthetic |-> FALSE,
      types |-> << "num_bigint::bigint::BigInt" >>],
     [text |-> "impl <a class=\"trait\" href=\"https://doc.rust-lang.org/nightly/core/ops/bit/trait.Not.html\" title=\"trait core::ops::bit::Not\">Not</a> for <a class=\"struct\" href=\"num_bigint/struct.BigInt.html\" title=\"struct num_bigint::BigInt\">BigInt</a>",
      synthetic |-> FALSE,
      types |-> << "num_bigint::bigint::BigInt" >>]
  >>

(* line 7: implementors["num_bigint"] = [...]; the array literal, 2 records *)
num_bigint ==
  <<
     [text |-> "impl <a class=\"trait\" href=\"https://doc.rust-lang.org/nightly/core/ops/bit/trait.Not.html\" title=\"trait core::ops::bit::Not\">Not</a> for <a class=\"struct\" href=\"num_bigint/struct.BigInt.html\" title=\"struct num_bigint::BigInt\">BigInt</a>",
      synthetic |-> FALSE,
      types |-> << "num_bigint::bigint::BigInt" >>],
     [text |-> "impl&lt;'a&gt; <a class=\"trait\" href=\"https://doc.rust-lang.org/nightly/core/ops/bit/trait.Not.html\" title=\"trait core::ops::bit::Not\">Not</a> for &amp;'a <a class=\"struct\" href=\"num_bigint/struct.BigInt.html\" title=\"struct num_bigint::BigInt\">BigInt</a>",
      synthetic |-> FALSE,
      types |-> << "num_bigint::bigint::BigInt" >>]
  >>

(* line 8: implementors["secret_integers"] = [...]; the array literal, 10 records *)
secret_integers ==
  <<
     [text |-> "impl <a class=\"trait\" href=\"https://doc.rust-lang.org/nightly/core/ops/bit/trait.Not.html\" title=\"trait core::ops::bit::Not\">Not</a> for <a class=\"struct\" href=\"secret_integers/struct.U8.html\" title=\"struct secret_integers::U8\">U8</a>",
      synthetic |-> FALSE,
      types |-> << "secret_integers::U8" >>],
     [text |-> "impl <a class=\"trait\" href=\"https://doc.rust-lang.org/nightly/core/ops/bit/trait.Not.html\" title=\"trait core::ops::bit::Not\">Not</a> for <a class=\"struct\" href=\"secret_integers/struct.U16.html\" title=\"struct secret_integers::U16\">U16</a>",
      synthetic |-> FALSE,
      types |-> << "secret_integers::U16" >>],
     [text |-> "impl <a class=\"trait\" href=\"https://doc.rust-lang.org/nightly/core/ops/bit/trait.Not.html\" title=\"trait core::ops::bit::Not\">Not</a> for <a class=\"struct\" href=\"secret_integers/struct.U32.html\" title=\"struct secret_integers::U32\">U32</a>",
      synthetic |-> FALSE,
      types |-> << "secret_integers::U32" >>],
     [text |-> "impl <a class=\"trait\" href=\"https://doc.rust-lang.org/nightly/core/ops/bit/trait.Not.html\" title=\"trait core::ops::bit::Not\">Not</a> for <a class=\"struct\" href=\"secret_integers/struct.U64.html\" title=\"struct secret_integers::U64\">U64</a>",
      synthetic |-> FALSE,
      types |-> << "secret_integers::U64" >>],
     [text |-> "impl <a class=\"trait\" href=\"https://doc.rust-lang.org/nightly/core/ops/bit/trait.Not.html\" title=\"trait core::ops::bit::Not\">Not</a> for <a class=\"struct\" href=\"secret_integers/struct.U128.html\" title=\"struct secret_integers::U128\">U128</a>",
      synthetic |-> FALSE,
      types |-> << "secret_integers::U128" >>],
     [text |-> "impl <a class=\"trait\" href=\"https://doc.rust-lang.org/nightly/core/ops/bit/trait.Not.html\" title=\"trait core::ops::bit::Not\">Not</a> for <a class=\"struct\" href=\"secret_integers/struct.I8.html\" title=\"struct secret_integers::I8\">I8</a>",
      synthetic |-> FALSE,
      types |-> << "secret_integers::I8" >>],
     [text |-> "impl <a class=\"trait\" href=\"https://doc.rust-lang.org/nightly/core/ops/bit/trait.Not.html\" title=\"trait core::ops::bit::Not\">Not</a> for <a class=\"struct\" href=\"secret_integers/struct.I16.html\" title=\"struct secret_integers::I16\">I16</a>",
      synthetic |-> FALSE,
      types |-> << "secret_integers::I16" >>],
     [text |-> "impl <a class=\"trait\" href=\"https://doc.rust-lang.org/nightly/core/ops/bit/trait.Not.html\" title=\"trait core::ops::bit::Not\">Not</a> for <a class=\"struct\" href=\"secret_integers/struct.I32.html\" title=\"struct secret_integers::I32\">I32</a>",
      synthetic |-> FALSE,
      types |-> << "secret_integers::I32" >>],
     [text |-> "impl <a class=\"trait\" href=\"https://doc.rust-lang.org/nightly/core/ops/bit/trait.Not.html\" title=\"trait core::ops::bit::Not\">Not</a> for <a class=\"struct\" href=\"secret_integers/struct.I64.html\" title=\"struct secret_integers::I64\">I64</a>",
      synthetic |-> FALSE,
      types |-> << "secret_integers::I64" >>],
     [text |-> "impl <a class=\"trait\" href=\"https://doc.rust-lang.org/nightly/core/ops/bit/trait.Not.html\" title=\"trait core::ops::bit::Not\">Not</a> for <a class=\"struct\" href=\"secret_integers/struct.I128.html\" title=\"struct secret_integers::I128\">I128</a>",
      synthetic |-> FALSE,
      types |-> << "secret_integers::I128" >>]
  >>

(* line 9 in the older format of the generator: the markup alone, without *)
(* the synthetic and types fields                                         *)
typenum_text_only ==
  <<
     [text |-> "impl <a class=\"trait\" href=\"https://doc.rust-lang.org/nightly/core/ops/bit/trait.Not.html\" title=\"trait core::ops::bit::Not\">Not</a> for <a class=\"struct\" href=\"typenum/bit/struct.B0.html\" title=\"struct typenum::bit::B0\">B0</a>"],
     [text |-> "impl <a class=\"trait\" href=\"https://doc.rust-lang.org/nightly/core/ops/bit/trait.Not.html\" title=\"trait core::ops::bit::Not\">Not</a> for <a class=\"struct\" href=\"typenum/bit/struct.B1.html\" title=\"struct typenum::bit::B1\">B1</a>"]
  >>

(* line 9 with type paths relative to the crate instead of starting at it *)
typenum_relative_types ==
  <<
     [text |-> "impl <a class=\"trait\" href=\"https://doc.rust-lang.org/nightly/core/ops/bit/trait.Not.html\" title=\"trait core::ops::bit::Not\">Not</a> for <a class=\"struct\" href=\"typenum/bit/struct.B0.html\" title=\"struct typenum::bit::B0\">B0</a>",
      synthetic |-> FALSE,
      types |-> << "bit::B0" >>],
     [text |-> "impl <a class=\"trait\" href=\"https://doc.rust-lang.org/nightly/core/ops/bit/trait.Not.html\" title=\"trait core::ops::bit::Not\">Not</a> for <a class=\"struct\" href=\"typenum/bit/struct.B1.html\" title=\"struct typenum::bit::B1\">B1</a>",
      synthetic |-> FALSE,
      types |-> << "bit::B1" >>]
  >>

(* line 9: implementors["typenum"] = [...]; the array literal, 2 records *)
typenum ==
  <<
     [text |-> "impl <a class=\"trait\" href=\"https://doc.rust-lang.org/nightly/core/ops/bit/trait.Not.html\" title=\"trait core::ops::bit::Not\">Not</a> for <a class=\"struct\" href=\"typenum/bit/struct.B0.html\" title=\"struct typenum::bit::B0\">B0</a>",
      synthetic |-> FALSE,
      types |-> << "typenum::bit::B0" >>],
     [text |-> "impl <a class=\"trait\" href=\"https://doc.rust-lang.org/nightly/core/ops/bit/trait.Not.html\" title=\"trait core::ops::bit::Not\">Not</a> for <a class=\"struct\" href=\"typenum/bit/struct.B1.html\" title=\"struct typenum::bit::B1\">B1</a>",
      synthetic |-> FALSE,
      types |-> << "typenum::bit::B1" >>]
  >>

(* line 10: implementors["unsafe_hacspec_examples"] = [...]; the array literal, 36 records *)
unsafe_hacspec_examples ==
  <<
     [text |-> "impl <a class=\"trait\" href=\"https://doc.rust-lang.org/nightly/core/ops/bit/trait.Not.html\" title=\"trait core::ops::bit::Not\">Not</a> for <a class=\"struct\" href=\"unsafe_hacspec_examples/aes_gcm/aes/struct.Block.html\" title=\"struct unsafe_hacspec_examples::aes_gcm::aes::Block\">Block</a>",
      synthetic |-> FALSE,
      types |-> << "unsafe_hacspec_examples::aes_gcm::aes::Block" >>],
     [text |-> "impl <a class=\"trait\" href=\"https://doc.rust-lang.org/nightly/core/ops/bit/trait.Not.html\" title=\"trait core::ops::bit::Not\">Not</a> for <a class=\"struct\" href=\"unsafe_hacspec_examples/aes_gcm/aes/struct.Word.html\" title=\"struct unsafe_hacspec_examples::aes_gcm::aes::Word\">Word</a>",
      synthetic |-> FALSE,
      types |-> << "unsafe_hacspec_examples::aes_gcm::aes::Word" >>],
     [text |-> "impl <a class=\"trait\" href=\"https://doc.rust-lang.org/nightly/core/ops/bit/trait.Not.html\" title=\"trait core::ops::bit::Not\">Not</a> for <a class=\"struct\" href=\"unsafe_hacspec_examples/aes_gcm/aes/struct.RoundKey.html\" title=\"struct unsafe_hacspec_examples::aes_gcm::aes::RoundKey\">RoundKey</a>",
      synthetic |-> FALSE,
      types |-> << "unsafe_hacspec_examples::aes_gcm::aes::RoundKey" >>],
     [text |-> "impl <a class=\"trait\" href=\"https://doc.rust-lang.org/nightly/core/ops/bit/trait.Not.html\" title=\"trait core::ops::bit::Not\">Not</a> for <a class=\"struct\" href=\"unsafe_hacspec_examples/aes_gcm/aes/struct.Nonce.html\" title=\"struct unsafe_hacspec_examples::aes_gcm::aes::Nonce\">Nonce</a>",
      synthetic |-> FALSE,
      types |-> << "unsafe_hacspec_examples::aes_gcm::aes::Nonce" >>],
     [text |-> "impl <a class=\"trait\" href=\"https://doc.rust-lang.org/nightly/core/ops/bit/trait.Not.html\" title=\"trait core::ops::bit::Not\">Not</a> for <a class=\"struct\" href=\"unsafe_hacspec_examples/aes_gcm/aes/struct.SBox.html\" title=\"struct unsafe_hacspec_examples::aes_gcm::aes::SBox\">SBox</a>",
      synthetic |-> FALSE,
      types |-> << "unsafe_hacspec_examples::aes_gcm::aes::SBox" >>],
     [text |-> "impl <a class=\"trait\" href=\"https://doc.rust-lang.org/nightly/core/ops/bit/trait.Not.html\" title=\"trait core::ops::bit::Not\">Not</a> for <a class=\"struct\" href=\"unsafe_hacspec_examples/aes_gcm/aes/struct.RCon.html\" title=\"struct unsafe_hacspec_examples::aes_gcm::aes::RCon\">RCon</a>",
      synthetic |-> FALSE,
      types |-> << "unsafe_hacspec_examples::aes_gcm::aes::RCon" >>],
     [text |-> "impl <a class=\"trait\" href=\"https://doc.rust-lang.org/nightly/core/ops/bit/trait.Not.html\" title=\"trait core::ops::bit::Not\">Not</a> for <a class=\"struct\" href=\"unsafe_hacspec_examples/aes_gcm/aes/struct.Bytes144.html\" title=\"struct unsafe_hacspec_examples::aes_gcm::aes::Bytes144\">Bytes144</a>",
      synthetic |-> FALSE,
      types |-> << "unsafe_hacspec_examples::aes_gcm::aes::Bytes144" >>],
     [text |-> "impl <a class=\"trait\" href=\"https://doc.rust-lang.org/nightly/core/ops/bit/trait.Not.html\" title=\"trait core::ops::bit::Not\">Not</a> for <a class=\"struct\" href=\"unsafe_hacspec_examples/aes_gcm/aes/struct.Bytes176.html\" title=\"struct unsafe_hacspec_examples::aes_gcm::aes::Bytes176\">Bytes176</a>",
      synthetic |-> FALSE,
      types |-> << "unsafe_hacspec_examples::aes_gcm::aes::Bytes176" >>],
     [text |-> "impl <a class=\"trait\" href=\"https://doc.rust-lang.org/nightly/core/ops/bit/trait.Not.html\" title=\"trait core::ops::bit::Not\">Not</a> for <a class=\"struct\" href=\"unsafe_hacspec_examples/aes_gcm/aes/struct.Bytes208.html\" title=\"struct unsafe_hacspec_examples::aes_gcm::aes::Bytes208\">Bytes208</a>",
      synthetic |-> FALSE,
      types |-> << "unsafe_hacspec_examples::aes_gcm::aes::Bytes208" >>],
     [text |-> "impl <a class=\"trait\" href=\"https://doc.rust-lang.org/nightly/core/ops/bit/trait.Not.html\" title=\"trait core::ops::bit::Not\">Not</a> for <a class=\"struct\" href=\"unsafe_hacspec_examples/aes_gcm/aes/struct.Bytes240.html\" title=\"struct unsafe_hacspec_examples::aes_gcm::aes::Bytes240\">Bytes240</a>",
      synthetic |-> FALSE,
      types |-> << "unsafe_hacspec_examples::aes_gcm::aes::Bytes240" >>],
     [text |-> "impl <a class=\"trait\" href=\"https://doc.rust-lang.org/nightly/core/ops/bit/trait.Not.html\" title=\"trait core::ops::bit::Not\">Not</a> for <a class=\"struct\" href=\"unsafe_hacspec_examples/aes_gcm/aes/struct.Key128.html\" title=\"struct unsafe_hacspec_examples::aes_gcm::aes::Key128\">Key128</a>",
      synthetic |-> FALSE,
      types |-> << "unsafe_hacspec_examples::aes_gcm::aes::Key128" >>],
     [text |-> "impl <a class=\"trait\" href=\"https://doc.rust-lang.org/nightly/core/ops/bit/trait.Not.html\" title=\"trait core::ops::bit::Not\">Not</a> for <a class=\"struct\" href=\"unsafe_hacspec_examples/aes_gcm/aes/struct.Key256.html\" title=\"struct unsafe_hacspec_examples::aes_gcm::aes::Key256\">Key256</a>",
      synthetic |-> FALSE,
      types |-> << "unsafe_hacspec_examples::aes_gcm::aes::Key256" >>],
     [text |-> "impl <a class=\"trait\" href=\"https://doc.rust-lang.org/nightly/core/ops/bit/trait.Not.html\" title=\"trait core::ops::bit::Not\">Not</a> for <a class=\"struct\" href=\"unsafe_hacspec_examples/aes_gcm/gf128/struct.Block.html\" title=\"struct unsafe_hacspec_examples::aes_gcm::gf128::Block\">Block</a>",
      synthetic |-> FALSE,
      types |-> << "unsafe_hacspec_examples::aes_gcm::gf128::Block" >>],
     [text |-> "impl <a class=\"trait\" href=\"https://doc.rust-lang.org/nightly/core/ops/bit/trait.Not.html\" title=\"trait core::ops::bit::Not\">Not</a> for <a class=\"struct\" href=\"unsafe_hacspec_examples/aes_gcm/gf128/struct.Key.html\" title=\"struct unsafe_hacspec_examples::aes_gcm::gf128::Key\">Key</a>",
      synthetic |-> FALSE,
      types |-> << "unsafe_hacspec_examples::aes_gcm::gf128::Key" >>],
     [text |-> "impl <a class=\"trait\" href=\"https://doc.rust-lang.org/nightly/core/ops/bit/trait.Not.html\" title=\"trait core::ops::bit::Not\">Not</a> for <a class=\"struct\" href=\"unsafe_hacspec_examples/aes_gcm/gf128/struct.Tag.html\" title=\"struct unsafe_hacspec_examples::aes_gcm::gf128::Tag\">Tag</a>",
      synthetic |-> FALSE,
      types |-> << "unsafe_hacspec_examples::aes_gcm::gf128::Tag" >>],
     [text |-> "impl <a class=\"trait\" href=\"https://doc.rust-lang.org/nightly/core/ops/bit/trait.Not.html\" title=\"trait core::ops::bit::Not\">Not</a> for <a class=\"struct\" href=\"unsafe_hacspec_examples/blake2/blake2b/struct.DigestB.html\" title=\"struct unsafe_hacspec_examples::blake2::blake2b::DigestB\">DigestB</a>",
      synthetic |-> FALSE,
      types |-> << "unsafe_hacspec_examples::blake2::blake2b::DigestB" >>],
     [text |-> "impl <a class=\"trait\" href=\"https://doc.rust-lang.org/nightly/core/ops/bit/trait.Not.html\" title=\"trait core::ops::bit::Not\">Not</a> for <a class=\"struct\" href=\"unsafe_hacspec_examples/curve25519/struct.FieldCanvas.html\" title=\"struct unsafe_hacspec_examples::curve25519::FieldCanvas\">FieldCanvas</a>",
      synthetic |-> FALSE,
      types |-> << "unsafe_hacspec_examples::curve25519::curve25519::FieldCanvas" >>],
     [text |-> "impl <a class=\"trait\" href=\"https://doc.rust-lang.org/nightly/core/ops/bit/trait.Not.html\" title=\"trait core::ops::bit::Not\">Not</a> for <a class=\"struct\" href=\"unsafe_hacspec_examples/curve25519/struct.FieldElement.html\" title=\"struct unsafe_hacspec_examples::curve25519::FieldElement\">FieldElement</a>",
      synthetic |-> FALSE,
      types |-> << "unsafe_hacspec_examples::curve25519::curve25519::FieldElement" >>],
     [text |-> "impl <a class=\"trait\" href=\"https://doc.rust-lang.org/nightly/core/ops/bit/trait.Not.html\" title=\"trait core::ops::bit::Not\">Not</a> for <a class=\"struct\" href=\"unsafe_hacspec_examples/curve25519/struct.ScalarCanvas.html\" title=\"struct unsafe_hacspec_examples::curve25519::ScalarCanvas\">ScalarCanvas</a>",
      synthetic |-> FALSE,
      types |-> << "unsafe_hacspec_examples::curve25519::curve25519::ScalarCanvas" >>],
     [text |-> "impl <a class=\"trait\" href=\"https://doc.rust-lang.org/nightly/core/ops/bit/trait.Not.html\" title=\"trait core::ops::bit::Not\">Not</a> for <a class=\"struct\" href=\"unsafe_hacspec_examples/curve25519/struct.Scalar.html\" title=\"struct unsafe_hacspec_examples::curve25519::Scalar\">Scalar</a>",
      synthetic |-> FALSE,
      types |-> << "unsafe_hacspec_examples::curve25519::curve25519::Scalar" >>],
     [text |-> "impl <a class=\"trait\" href=\"https://doc.rust-lang.org/nightly/core/ops/bit/trait.Not.html\" title=\"trait core::ops::bit::Not\">Not</a> for <a class=\"struct\" href=\"unsafe_hacspec_examples/curve25519/struct.SerializedPoint.html\" title=\"struct unsafe_hacspec_examples::curve25519::SerializedPoint\">SerializedPoint</a>",
      synthetic |-> FALSE,
      types |-> << "unsafe_hacspec_examples::curve25519::curve25519::SerializedPoint" >>],
     [text |-> "impl <a class=\"trait\" href=\"https://doc.rust-lang.org/nightly/core/ops/bit/trait.Not.html\" title=\"trait core::ops::bit::Not\">Not</a> for <a class=\"struct\" href=\"unsafe_hacspec_examples/curve25519/struct.SerializedScalar.html\" title=\"struct unsafe_hacspec_examples::curve25519::SerializedScalar\">SerializedScalar</a>",
      synthetic |-> FALSE,
      types |-> << "unsafe_hacspec_examples::curve25519::curve25519::SerializedScalar" >>],
     [text |-> "impl <a class=\"trait\" href=\"https://doc.rust-lang.org/nightly/core/ops/bit/trait.Not.html\" title=\"trait core::ops::bit::Not\">Not</a> for <a class=\"struct\" href=\"unsafe_hacspec_examples/ec/p256/struct.FieldCanvas.html\" title=\"struct unsafe_hacspec_examples::ec::p256::FieldCanvas\">FieldCanvas</a>",
      synthetic |-> FALSE,
      types |-> << "unsafe_hacspec_examples::ec::p256::FieldCanvas" >>],
     [text |-> "impl <a class=\"trait\" href=\"https://doc.rust-lang.org/nightly/core/ops/bit/trait.Not.html\" title=\"trait core::ops::bit::Not\">Not</a> for <a class=\"struct\" href=\"unsafe_hacspec_examples/ec/p256/struct.FieldElement.html\" title=\"struct unsafe_hacspec_examples::ec::p256::FieldElement\">FieldElement</a>",
      synthetic |-> FALSE,
      types |-> << "unsafe_hacspec_examples::ec::p256::FieldElement" >>],
     [text |-> "impl <a class=\"trait\" href=\"https://doc.rust-lang.org/nightly/core/ops/bit/trait.Not.html\" title=\"trait core::ops::bit::Not\">Not</a> for <a class=\"struct\" href=\"unsafe_hacspec_examples/ec/p256/struct.Scalar.html\" title=\"struct unsafe_hacspec_examples::ec::p256::Scalar\">Scalar</a>",
      synthetic |-> FALSE,
      types |-> << "unsafe_hacspec_examples::ec::p256::Scalar" >>],
     [text |-> "impl <a class=\"trait\" href=\"https://doc.rust-lang.org/nightly/core/ops/bit/trait.Not.html\" title=\"trait core::ops::bit::Not\">Not</a> for <a class=\"struct\" href=\"unsafe_hacspec_examples/ec/p384/struct.FieldCanvas.html\" title=\"struct unsafe_hacspec_examples::ec::p384::FieldCanvas\">FieldCanvas</a>",
      synthetic |-> FALSE,
      types |-> << "unsafe_hacspec_examples::ec::p384::FieldCanvas" >>],
     [text |-> "impl <a class=\"trait\" href=\"https://doc.rust-lang.org/nightly/core/ops/bit/trait.Not.html\" title=\"trait core::ops::bit::Not\">Not</a> for <a class=\"struct\" href=\"unsafe_hacspec_examples/ec/p384/struct.FieldElement.html\" title=\"struct unsafe_hacspec_examples::ec::p384::FieldElement\">FieldElement</a>",
      synthetic |-> FALSE,
      types |-> << "unsafe_hacspec_examples::ec::p384::FieldElement" >>],
     [text |-> "impl <a class=\"trait\" href=\"https://doc.rust-lang.org/nightly/core/ops/bit/trait.Not.html\" title=\"trait core::ops::bit::Not\">Not</a> for <a class=\"struct\" href=\"unsafe_hacspec_examples/ec/p384/struct.Scalar.html\" title=\"struct unsafe_hacspec_examples::ec::p384::Scalar\">Scalar</a>",
      synthetic |-> FALSE,
      types |-> << "unsafe_hacspec_examples::ec::p384::Scalar" >>],
     [text |-> "impl <a class=\"trait\" href=\"https://doc.rust-lang.org/nightly/core/ops/bit/trait.Not.html\" title=\"trait core::ops::bit::Not\">Not</a> for <a class=\"struct\" href=\"unsafe_hacspec_examples/hkdf/struct.PRK.html\" title=\"struct unsafe_hacspec_examples::hkdf::PRK\">PRK</a>",
      synthetic |-> FALSE,
      types |-> << "unsafe_hacspec_examples::hkdf::hkdf::PRK" >>],
     [text |-> "impl <a class=\"trait\" href=\"https://doc.rust-lang.org/nightly/core/ops/bit/trait.Not.html\" title=\"trait core::ops::bit::Not\">Not</a> for <a class=\"struct\" href=\"unsafe_hacspec_examples/hmac/struct.PRK.html\" title=\"struct unsafe_hacspec_examples::hmac::PRK\">PRK</a>",
      synthetic |-> FALSE,
      types |-> << "unsafe_hacspec_examples::hmac::hmac::PRK" >>],
     [text |-> "impl <a class=\"trait\" href=\"https://doc.rust-lang.org/nightly/core/ops/bit/trait.Not.html\" title=\"trait core::ops::bit::Not\">Not</a> for <a class=\"struct\" href=\"unsafe_hacspec_examples/hmac/struct.Block.html\" title=\"struct unsafe_hacspec_examples::hmac::Block\">Block</a>",
      synthetic |-> FALSE,
      types |-> << "unsafe_hacspec_examples::hmac::hmac::Block" >>],
     [text |-> "impl <a class=\"trait\" href=\"https://doc.rust-lang.org/nightly/core/ops/bit/trait.Not.html\" title=\"trait core::ops::bit::Not\">Not</a> for <a class=\"struct\" href=\"unsafe_hacspec_examples/sha2/struct.Block.html\" title=\"struct unsafe_hacspec_examples::sha2::Block\">Block</a>",
      synthetic |-> FALSE,
      types |-> << "unsafe_hacspec_examples::sha2::sha2::Block" >>],
     [text |-> "impl <a class=\"trait\" href=\"https://doc.rust-lang.org/nightly/core/ops/bit/trait.Not.html\" title=\"trait core::ops::bit::Not\">Not</a> for <a class=\"struct\" href=\"unsafe_hacspec_examples/sha2/struct.OpTableType.html\" title=\"struct unsafe_hacspec_examples::sha2::OpTableType\">OpTableType</a>",
      synthetic |-> FALSE,
      types |-> << "unsafe_hacspec_examples::sha2::sha2::OpTableType" >>],
     [text |-> "impl <a class=\"trait\" href=\"https://doc.rust-lang.org/nightly/core/ops/bit/trait.Not.html\" title=\"trait core::ops::bit::Not\">Not</a> for <a class=\"struct\" href=\"unsafe_hacspec_examples/sha2/struct.Digest.html\" title=\"struct unsafe_hacspec_examples::sha2::Digest\">Digest</a>",
      synthetic |-> FALSE,
      types |-> << "unsafe_hacspec_examples::sha2::sha2::Digest" >>],
     [text |-> "impl <a class=\"trait\" href=\"https://doc.rust-lang.org/nightly/core/ops/bit/trait.Not.html\" title=\"trait core::ops::bit::Not\">Not</a> for <a class=\"struct\" href=\"unsafe_hacspec_examples/sha2/struct.RoundConstantsTable.html\" title=\"struct unsafe_hacspec_examples::sha2::RoundConstantsTable\">RoundConstantsTable</a>",
      synthetic |-> FALSE,
      types |-> << "unsafe_hacspec_examples::sha2::sha2::RoundConstantsTable" >>],
     [text |-> "impl <a class=\"trait\" href=\"https://doc.rust-lang.org/nightly/core/ops/bit/trait.Not.html\" title=\"trait core::ops::bit::Not\">Not</a> for <a class=\"struct\" href=\"unsafe_hacspec_examples/sha2/struct.Hash.html\" title=\"struct unsafe_hacspec_examples::sha2::Hash\">Hash</a>",
      synthetic |-> FALSE,
      types |-> << "unsafe_hacspec_examples::sha2::sha2::Hash" >>]
  >>
(***************************************************************************)
(* JavaScript values.                                                      *)
(***************************************************************************)
Undefined == [type |-> "undefined"]
Null == [type |-> "null"]
False == [type |-> "boolean", val |-> "false"]
True == [type |-> "boolean", val |-> "true"]
Zero == [type |-> "number", val |-> "0"]
EmptyString == [type |-> "string", val |-> ""]
PlainObject == [type |-> "object", props |-> << >>]
(* a function that returns normally, and one whose body throws *)
Function == [type |-> "function", body |-> "returns"]
ThrowingFunction == [type |-> "function", body |-> "throws"]
(* an object value holding the properties t *)
Obj(t) == [type |-> "object", props |-> t]

(* ToBoolean replaced by a test against undefined only *)
ToBooleanDefinedOnly(v) == v.type # "undefined"

(* ToBoolean, as the if statement of line 11 applies it to its condition *)
ToBoolean(v) ==
  CASE v.type = "undefined" -> FALSE
    [] v.type = "null"      -> FALSE
    [] v.type = "boolean"   -> v.val = "true"
    [] v.type = "number"    -> v.val # "0"
    [] v.type = "string"    -> v.val # ""
    [] OTHER                -> TRUE

(* whether the call expression of line 11 has something to call *)
IsCallable(v) == v.type = "function"

(* property read: an absent property reads as undefined *)
Get(obj, name) == IF name \in DOMAIN obj THEN obj[name] ELSE Undefined

(* property assignment obj[name] = v: creates or overwrites one property *)
Put(obj, name, v) ==
  [n \in DOMAIN obj \cup {name} |-> IF n = name THEN v ELSE obj[n]]

(* the object literal {} *)
EmptyObject == << >>

(* lines 2..10 with line 9 assigning to the key of line 8 *)
StatementRepeatedKey(n) ==
  CASE n = 2  -> [key |-> "hacspec_chacha20",        value |-> hacspec_chacha20]
    [] n = 3  -> [key |-> "hacspec_curve25519",      value |-> hacspec_curve25519]
    [] n = 4  -> [key |-> "hacspec_poly1305",        value |-> hacspec_poly1305]
    [] n = 5  -> [key |-> "hacspec_sha256",          value |-> hacspec_sha256]
    [] n = 6  -> [key |-> "hacspec_sha3",            value |-> hacspec_sha3]
    [] n = 7  -> [key |-> "num_bigint",              value |-> num_bigint]
    [] n = 8  -> [key |-> "secret_integers",         value |-> secret_integers]
    [] n = 9  -> [key |-> "secret_integers",         value |-> typenum]
    [] n = 10 -> [key |-> "unsafe_hacspec_examples", value |-> unsafe_hacspec_examples]

(* the statement of line n, 2..10: the key it assigns and the array literal *)
Statement(n) ==
  CASE n = 2  -> [key |-> "hacspec_chacha20",        value |-> hacspec_chacha20]
    [] n = 3  -> [key |-> "hacspec_curve25519",      value |-> hacspec_curve25519]
    [] n = 4  -> [key |-> "hacspec_poly1305",        value |-> hacspec_poly1305]
    [] n = 5  -> [key |-> "hacspec_sha256",          value |-> hacspec_sha256]
    [] n = 6  -> [key |-> "hacspec_sha3",            value |-> hacspec_sha3]
    [] n = 7  -> [key |-> "num_bigint",              value |-> num_bigint]
    [] n = 8  -> [key |-> "secret_integers",         value |-> secret_integers]
    [] n = 9  -> [key |-> "typenum",                 value |-> typenum]
    [] n = 10 -> [key |-> "unsafe_hacspec_examples", value |-> unsafe_hacspec_examples]

(* script positions: before line n, inside line 11, and after the run *)
Line(n) ==
  << "L1", "L2", "L3", "L4", "L5", "L6", "L7", "L8", "L9", "L10", "L11_if" >>[n]

(***************************************************************************)
(* The host page.  What it may hold in the two globals the script touches. *)
(***************************************************************************)
(* a table another implementors script left in pending_implementors *)
OtherTable ==
  [core |-> << [text |-> "impl <a class=\"trait\" href=\"https://doc.rust-lang.org/nightly/core/clone/trait.Clone.html\" title=\"trait core::clone::Clone\">Clone</a> for <a class=\"struct\" href=\"core/struct.X.html\" title=\"struct core::X\">X</a>",
                 synthetic |-> FALSE,
                 types |-> << "core::X" >>] >>]

RegisterValues ==
  { Undefined, Null, False, Zero, EmptyString, True, PlainObject,
    Function, ThrowingFunction }

PendingValues == { Undefined, Obj(OtherTable) }

Init ==
  /\ window = EmptyObject
  /\ implementors = EmptyObject
  /\ pc = "idle"
  /\ runs = 0
  /\ calls = << >>
  /\ stored = << >>
  /\ written = {}
  /\ invoked = 0
  /\ error = "none"
  /\ replaced = Undefined

(* the page, between scripts: main.js or another script sets a global *)
HostSet(name, v) ==
  /\ pc = "idle"
  /\ window' = Put(window, name, v)
  /\ UNCHANGED << implementors, pc, runs, calls, stored, written, invoked, error, replaced >>

Host ==
  \/ \E v \in RegisterValues : HostSet("register_implementors", v)
  \/ \E v \in PendingValues : HostSet("pending_implementors", v)

(***************************************************************************)
(* The script.                                                             *)
(***************************************************************************)
(* line 1 without the var: implementors becomes a property of window *)
EnterGlobal ==
  /\ pc = "idle"
  /\ runs < MaxRuns
  /\ runs' = runs + 1
  /\ implementors' = EmptyObject
  /\ window' = Put(window, "implementors", Obj(EmptyObject))
  /\ written' = { "implementors" }
  /\ invoked' = 0
  /\ error' = "none"
  /\ replaced' = Undefined
  /\ pc' = Line(2)
  /\ UNCHANGED << calls, stored >>

(* line 1: (function() {var implementors = {}; *)
Enter ==
  /\ pc = "idle"
  /\ runs < MaxRuns
  /\ runs' = runs + 1
  /\ implementors' = EmptyObject
  /\ written' = {}
  /\ invoked' = 0
  /\ error' = "none"
  /\ replaced' = Undefined
  /\ pc' = Line(2)
  /\ UNCHANGED << window, calls, stored >>

(* lines 2..10: implementors["<key>"] = [...]; *)
Assign(n) ==
  /\ pc = Line(n)
  /\ implementors' = Put(implementors, Statement(n).key, Statement(n).value)
  /\ pc' = Line(n + 1)
  /\ UNCHANGED << window, runs, calls, stored, written, invoked, error, replaced >>

(* line 11: if (window.register_implementors) *)
If ==
  /\ pc = "L11_if"
  /\ pc' = IF ToBoolean(Get(window, "register_implementors"))
             THEN "L11_call" ELSE "L11_store"
  /\ UNCHANGED << window, implementors, runs, calls, stored, written, invoked, error, replaced >>

(* line 11 with the call statement duplicated *)
CallTwice ==
  /\ pc = "L11_call"
  /\ LET f == Get(window, "register_implementors") IN
       IF ~IsCallable(f)
         THEN /\ error' = "TypeError"
              /\ pc' = "threw"
              /\ UNCHANGED << calls, invoked >>
         ELSE IF f.body = "throws"
           THEN /\ calls' = Append(calls, << implementors >>)
                /\ invoked' = invoked + 1
                /\ error' = "Error"
                /\ pc' = "threw"
           ELSE /\ calls' = Append(Append(calls, << implementors >>), << implementors >>)
                /\ invoked' = invoked + 2
                /\ error' = error
                /\ pc' = "done"
  /\ UNCHANGED << window, implementors, runs, stored, written, replaced >>

(* line 11 with the call placed before the assignment of line 10 *)
CallBeforeLastAssignment ==
  /\ pc = "L11_call"
  /\ LET f == Get(window, "register_implementors")
         t == [k \in DOMAIN implementors \ { Statement(10).key } |-> implementors[k]]
     IN
       IF ~IsCallable(f)
         THEN /\ error' = "TypeError"
              /\ pc' = "threw"
              /\ UNCHANGED << calls, invoked >>
         ELSE /\ calls' = Append(calls, << t >>)
              /\ invoked' = invoked + 1
              /\ IF f.body = "throws"
                   THEN error' = "Error" /\ pc' = "threw"
                   ELSE error' = error /\ pc' = "done"
  /\ UNCHANGED << window, implementors, runs, stored, written, replaced >>

(* line 11: {window.register_implementors(implementors);} *)
Call ==
  /\ pc = "L11_call"
  /\ LET f == Get(window, "register_implementors") IN
       IF ~IsCallable(f)
         THEN /\ error' = "TypeError"
              /\ pc' = "threw"
              /\ UNCHANGED << calls, invoked >>
         ELSE /\ calls' = Append(calls, << implementors >>)
              /\ invoked' = invoked + 1
              /\ IF f.body = "throws"
                   THEN error' = "Error" /\ pc' = "threw"
                   ELSE error' = error /\ pc' = "done"
  /\ UNCHANGED << window, implementors, runs, stored, written, replaced >>

(* line 11 with an empty else branch *)
StoreSkipped ==
  /\ pc = "L11_store"
  /\ pc' = "done"
  /\ UNCHANGED << window, implementors, runs, calls, stored, written, invoked, error, replaced >>

(* line 11 with a store that adds this table's keys to a table already *)
(* pending instead of replacing it                                     *)
StoreMerge ==
  /\ pc = "L11_store"
  /\ LET old == Get(window, "pending_implementors")
         merged == IF old.type = "object"
                     THEN [k \in DOMAIN old.props \cup DOMAIN implementors |->
                             IF k \in DOMAIN implementors THEN implementors[k]
                                                          ELSE old.props[k]]
                     ELSE implementors
     IN
       /\ window' = Put(window, "pending_implementors", Obj(merged))
       /\ stored' = Append(stored, Obj(merged))
  /\ written' = written \cup { "pending_implementors" }
  /\ replaced' = Get(window, "pending_implementors")
  /\ pc' = "done"
  /\ UNCHANGED << implementors, runs, calls, invoked, error >>

(* line 11: else {window.pending_implementors = implementors;} *)
Store ==
  /\ pc = "L11_store"
  /\ window' = Put(window, "pending_implementors", Obj(implementors))
  /\ stored' = Append(stored, Obj(implementors))
  /\ written' = written \cup { "pending_implementors" }
  /\ replaced' = Get(window, "pending_implementors")
  /\ pc' = "done"
  /\ UNCHANGED << implementors, runs, calls, invoked, error >>

(* line 11: })() -- the function returns, or the error leaves the script *)
Return ==
  /\ pc \in { "done", "threw" }
  /\ pc' = "idle"
  /\ UNCHANGED << window, implementors, runs, calls, stored, written, invoked, error, replaced >>

Next ==
  \/ Host
  \/ Enter
  \/ \E n \in 2..10 : Assign(n)
  \/ If
  \/ Call
  \/ Store
  \/ Return

Spec == Init /\ [][Next]_vars

TypeOK ==
  /\ pc \in { "idle", "L2", "L3", "L4", "L5", "L6", "L7", "L8", "L9", "L10",
              "L11_if", "L11_call", "L11_store", "done", "threw" }
  /\ runs \in 0..MaxRuns
  /\ Len(calls) <= runs
  /\ Len(stored) <= runs
  /\ invoked \in 0..1
  /\ error \in { "none", "TypeError", "Error" }
(***************************************************************************)
(* Properties.                                                             *)
(***************************************************************************)
Last(s) == s[Len(s)]

(* the script has run to its end, normally or by an error *)
Finished == pc \in { "done", "threw" }

(* what window.register_implementors holds *)
Registered == Get(window, "register_implementors")

FalsyValues == { Undefined, Null, False, Zero, EmptyString }
TruthyValues == { True, PlainObject, Function, ThrowingFunction }
CallableValues == { Function, ThrowingFunction }

(* C1, as stated: whenever window.register_implementors is truthy, a run   *)
(* invokes it exactly once with the table as only argument and does not    *)
(* write window.pending_implementors.                                      *)
C1_TruthyInvokedOnce ==
  (Finished /\ Registered \in TruthyValues) =>
     /\ invoked = 1
     /\ Len(calls) >= 1
     /\ Last(calls) = << implementors >>
     /\ "pending_implementors" \notin written

(* C1, amended: when window.register_implementors is a function, a run     *)
(* invokes it exactly once with the table as only argument and does not    *)
(* write window.pending_implementors; when it is truthy but not a function *)
(* the call raises a TypeError, nothing is invoked and nothing is written. *)
C1_FunctionInvokedOnce ==
  /\ (Finished /\ Registered \in CallableValues) =>
        /\ invoked = 1
        /\ Len(calls) >= 1
        /\ Last(calls) = << implementors >>
        /\ "pending_implementors" \notin written
  /\ (Finished /\ Registered \in TruthyValues \ CallableValues) =>
        /\ pc = "threw"
        /\ error = "TypeError"
        /\ invoked = 0
        /\ written = {}

C1_Witness ==
  /\ pc = "done"
  /\ Registered = Function
  /\ invoked = 1
  /\ Last(calls) = << implementors >>

(* C2: when window.register_implementors is absent or falsy, a run sets    *)
(* window.pending_implementors to the table and invokes no host function.  *)
C2_FalsyStores ==
  (Finished /\ Registered \in FalsyValues) =>
     /\ pc = "done"
     /\ Get(window, "pending_implementors") = Obj(implementors)
     /\ written = { "pending_implementors" }
     /\ invoked = 0

C2_Witness ==
  /\ pc = "done"
  /\ Registered = Null
  /\ Get(window, "pending_implementors") = Obj(implementors)
  /\ invoked = 0

(* C3, as stated: for every host state, a run raises no error and ends     *)
(* with the table registered or stored.                                    *)
C3_NeverFails ==
  /\ pc # "threw"
  /\ pc = "done" =>
        \/ invoked = 1 /\ Last(calls) = << implementors >>
        \/ Get(window, "pending_implementors") = Obj(implementors)

(* C3, amended: a run raises no error when window.register_implementors is *)
(* absent, falsy or a function that returns normally, and then ends with   *)
(* the table registered or stored; it raises an error exactly when the     *)
(* value is truthy and not a function (TypeError, table neither registered *)
(* nor stored) or is a function that itself throws.                        *)
C3_FailsOnlyOnBadHost ==
  /\ (Finished /\ Registered \in FalsyValues \cup { Function }) =>
        /\ pc = "done"
        /\ error = "none"
  /\ pc = "done" =>
        \/ invoked = 1 /\ Last(calls) = << implementors >>
        \/ Get(window, "pending_implementors") = Obj(implementors)
  /\ pc = "threw" =>
        \/ /\ Registered \in { True, PlainObject }
           /\ error = "TypeError"
           /\ invoked = 0
           /\ written = {}
        \/ /\ Registered = ThrowingFunction
           /\ error = "Error"
           /\ invoked = 1

C3_Witness ==
  /\ pc = "threw"
  /\ Registered = PlainObject
  /\ error = "TypeError"

(* C4: a run changes no global other than window.pending_implementors:     *)
(* register_implementors is never assigned, implementors is not a global,  *)
(* and in the host-ready branch the script writes no global at all.        *)
C4_Frame ==
  [][ pc' # pc =>
        /\ DOMAIN window \subseteq DOMAIN window'
        /\ DOMAIN window' \subseteq DOMAIN window \cup { "pending_implementors" }
        /\ \A n \in DOMAIN window \ { "pending_implementors" } : window'[n] = window[n]
        /\ "implementors" \notin DOMAIN window'
        /\ written' \subseteq { "pending_implementors" }
        /\ pc # "L11_store" => window' = window
        /\ (pc = "L11_call" \/ pc' = "L11_call") => written' = {}
    ]_vars

C4_Witness ==
  /\ runs = 2
  /\ pc = "done"
  /\ Len(calls) = 1
  /\ Len(stored) = 1
  /\ "implementors" \notin DOMAIN window
(* number of places at which pat occurs in the string s *)
Occurrences(s, pat) ==
  Cardinality({ i \in 1..(Len(s) - Len(pat) + 1) : SubSeq(s, i, i + Len(pat) - 1) = pat })

StartsWith(s, prefix) ==
  /\ Len(s) >= Len(prefix)
  /\ SubSeq(s, 1, Len(prefix)) = prefix

(* the records of table t, each with the key and the position it has *)
(* C5: the table maps crate-name strings to non-empty sequences of         *)
(* records, and every record has exactly the fields text (a string),       *)
(* synthetic (a boolean) and types (a sequence of strings).                *)
C5_WellFormedTable ==
  \A k \in DOMAIN implementors :
     /\ k \in STRING
     /\ DOMAIN implementors[k] = 1..Len(implementors[k])
     /\ Len(implementors[k]) >= 1
     /\ \A i \in 1..Len(implementors[k]) :
          LET r == implementors[k][i] IN
            /\ DOMAIN r = { "text", "synthetic", "types" }
            /\ r.text \in STRING
            /\ r.synthetic \in BOOLEAN
            /\ r.types \in Seq(STRING)

C5_Witness ==
  /\ pc = "L11_if"
  /\ Cardinality(DOMAIN implementors) = 9
  /\ \E k \in DOMAIN implementors : Len(implementors[k]) > 1

(* C6: every record, under every key, names the trait core::ops::bit::Not  *)
(* in its text (one trait link, titled "trait core::ops::bit::Not" and     *)
(* labelled Not) and names no other trait.                                 *)
C6_OnlyTraitNot ==
  \A k \in DOMAIN implementors :
     \A i \in 1..Len(implementors[k]) :
        LET text == implementors[k][i].text IN
          /\ Occurrences(text, "title=\"trait core::ops::bit::Not\">Not</a>") = 1
          /\ Occurrences(text, "title=\"trait ") = 1
          /\ Occurrences(text, "class=\"trait\"") = 1

C6_Witness ==
  /\ pc = "L11_if"
  /\ "num_bigint" \in DOMAIN implementors
  /\ StartsWith(implementors["num_bigint"][2].text, "impl&lt;'a&gt; <a class=\"trait\"")
(* the keys and record counts of a complete table *)
ExpectedCount ==
  [ hacspec_chacha20 |-> 4, hacspec_curve25519 |-> 6, hacspec_poly1305 |-> 5,
    hacspec_sha256 |-> 4, hacspec_sha3 |-> 7, num_bigint |-> 2,
    secret_integers |-> 10, typenum |-> 2, unsafe_hacspec_examples |-> 36 ]

RECURSIVE TotalRecords(_, _)
TotalRecords(t, keys) ==
  IF keys = {} THEN 0
  ELSE LET k == CHOOSE x \in keys : TRUE
       IN Len(t[k]) + TotalRecords(t, keys \ { k })

Complete(t) ==
  /\ DOMAIN t = DOMAIN ExpectedCount
  /\ Cardinality(DOMAIN t) = 9
  /\ \A k \in DOMAIN t : Len(t[k]) = ExpectedCount[k]
  /\ TotalRecords(t, DOMAIN t) = 76

(* the script is at or past the statement that hands the table over *)
HandingOver == pc \in { "L11_call", "L11_store", "done", "threw" }

(* C7: at the register_implementors call and at the pending_implementors   *)
(* store the table holds exactly the nine keys with 4, 6, 5, 4, 7, 2, 10,  *)
(* 2 and 36 records (76 in total), and the script assigns nothing to the   *)
(* table after the hand-over.                                              *)
C7_CompleteThenStatic ==
  /\ [](HandingOver => Complete(implementors))
  /\ [](\A i \in DOMAIN calls : Complete(calls[i][1]))
  /\ [](\A i \in DOMAIN stored : Complete(stored[i].props))
  /\ [][HandingOver => implementors' = implementors]_vars

C7_Witness ==
  /\ pc = "done"
  /\ Len(calls) = 1
  /\ Len(stored) = 1
  /\ Complete(calls[1][1])
  /\ Complete(stored[1].props)

(* C8: in a host that is not ready, the store overwrites: afterwards       *)
(* window.pending_implementors equals this script's table whatever the     *)
(* variable held before, and a second such run leaves the same content as  *)
(* the first.                                                              *)
C8_StoreOverwrites ==
  [][ (pc = "L11_store" /\ pc' # pc) =>
        /\ pc' = "done"
        /\ Get(window', "pending_implementors") = Obj(implementors)
        /\ \A i \in DOMAIN stored' :
              stored'[i] = Get(window', "pending_implementors")
    ]_vars

C8_Witness ==
  /\ pc = "done"
  /\ Len(stored) = 2
  /\ replaced = Obj(OtherTable)
  /\ Get(window, "pending_implementors") = Obj(implementors)
  /\ stored[1] = stored[2]

(* C9: the table passed to register_implementors in a run with a ready     *)
(* host and the table stored in pending_implementors in a run with a host  *)
(* that is not ready have the same keys and the same record sequences in   *)
(* the same order.                                                         *)
C9_SameTableInBothBranches ==
  \A i \in DOMAIN calls :
     \A j \in DOMAIN stored :
        /\ Len(calls[i]) = 1
        /\ stored[j].type = "object"
        /\ DOMAIN calls[i][1] = DOMAIN stored[j].props
        /\ \A k \in DOMAIN calls[i][1] : calls[i][1][k] = stored[j].props[k]

C9_Witness ==
  /\ Len(calls) >= 1
  /\ Len(stored) >= 1
  /\ pc = "idle"
  /\ calls[1][1] = stored[1].props

(* C10: every record has exactly one entry in types, and that type path    *)
(* begins with the crate key the record is listed under followed by "::".  *)
C10_TypesUnderCrateKey ==
  \A k \in DOMAIN implementors :
     \A i \in 1..Len(implementors[k]) :
        LET types == implementors[k][i].types IN
          /\ Len(types) = 1
          /\ StartsWith(types[1], k \o "::")

C10_Witness ==
  /\ pc = "L11_store"
  /\ "num_bigint" \in DOMAIN implementors
  /\ implementors["num_bigint"][1].types = << "num_bigint::bigint::BigInt" >>
  /\ "unsafe_hacspec_examples" \in DOMAIN implementors

(* C11: within the record sequence of each crate key the text fields are   *)
(* pairwise distinct, also where two records have the same types entry     *)
(* (the two num_bigint records, for BigInt and for &'a BigInt).            *)
C11_DistinctTexts ==
  \A k \in DOMAIN implementors :
     \A i \in 1..Len(implementors[k]) :
        \A j \in 1..Len(implementors[k]) :
           i # j => implementors[k][i].text # implementors[k][j].text

C11_Witness ==
  /\ pc = "L11_call"
  /\ "num_bigint" \in DOMAIN implementors
  /\ Len(implementors["num_bigint"]) = 2
  /\ implementors["num_bigint"][1].types = implementors["num_bigint"][2].types
  /\ implementors["num_bigint"][1].text # implementors["num_bigint"][2].text
====
